---- MODULE Spec2Model ----
(***************************************************************************)
(* Model of the gateway crate (src/src/lib.rs):                            *)
(*   - the ServiceResult outcome type and its Into<Result<..>> conversion, *)
(*   - replace_host, the authority rewriter, statement by statement.       *)
(* The url crate is not part of the repository; Url::parse, Url::host,     *)
(* Url::port, set_host, set_scheme and set_port are modelled at the places *)
(* lib.rs calls them, with the behaviour of url 1.7, the release line this *)
(* `extern crate` era code was written against.                            *)
(***************************************************************************)
EXTENDS Integers, Sequences, FiniteSets, TLC

VARIABLES pc, src, dest, src0, destText, ret, opc, sresult, converted

vars == <<pc, src, dest, src0, destText, ret, opc, sresult, converted>>

rvars == <<pc, src, dest, src0, destText, ret>>

ovars == <<opc, sresult, converted>>

(***************************************************************************)
(* Option<T>: None is the empty set, Some(x) the singleton.                *)
(***************************************************************************)
None == {}

Some(x) == {x}

Unwrap(o) == CHOOSE x \in o : TRUE

(***************************************************************************)
(* Bounds.                                                                 *)
(***************************************************************************)
NumHosts == 3

NumPorts == 3

NumPaths == 2

NumResponses == 5

NumServiceErrors == 5

NumDomainErrors == 5

NumSerdeErrors == 5

Min(a, b) == IF a < b THEN a ELSE b

HostPool == <<"fiz.net", "FIZ.net", "127.0.0.1", "www.baz.com", "baz.net">>

PortPool == <<80, 90, 443, 9090, 8080>>

PathPool == <<"/foo", "/", "/a/b", "/c">>

HostTexts == {HostPool[i] : i \in 1..Min(NumHosts, Len(HostPool))}

Ports == {PortPool[i] : i \in 1..Min(NumPorts, Len(PortPool))}

Paths == {PathPool[i] : i \in 1..Min(NumPaths, Len(PathPool))}

Queries == {None, Some("bar=10")}

OpaquePaths == {"x@y"}

Schemes == {"http", "https", "file", "foo", "mailto"}

(***************************************************************************)
(* url crate: scheme classes and default ports.                            *)
(***************************************************************************)
is_special(scheme) == scheme \in {"http", "https", "file"}

default_port(scheme) ==
    CASE scheme = "http" -> Some(80)
      [] scheme = "https" -> Some(443)
      [] OTHER -> None

(***************************************************************************)
(* url crate: hosts.  A domain host of a special scheme is lower-cased and *)
(* recognised as an IPv4 address when it is one; the opaque host of a      *)
(* non-special scheme keeps its text.                                      *)
(***************************************************************************)
to_ascii_lowercase(s) ==
    CASE s = "FIZ.net" -> "fiz.net"
      [] OTHER -> s

looks_ipv4(s) == s \in {"127.0.0.1"}

Host_parse(s) ==
    LET domain == to_ascii_lowercase(s)
    IN  IF looks_ipv4(domain)
        THEN [kind |-> "Ipv4", str |-> domain]
        ELSE [kind |-> "Domain", str |-> domain]

Host_parse_opaque(s) == [kind |-> "Domain", str |-> s]

\* format!("{}", host)
format_host(h) == h.str

(***************************************************************************)
(* Url::parse, on the text of a URL given by its components.               *)
(***************************************************************************)
WellFormed(t) ==
    /\ t.scheme \in {"http", "https"} => t.host # None /\ t.path \in Paths
    /\ t.scheme = "file" => t.port = None /\ t.path \in Paths
    /\ t.scheme = "foo" => (t.host = None => t.port = None) /\ t.path \in Paths
    /\ t.scheme = "mailto" =>
          t.host = None /\ t.port = None /\ t.path \in OpaquePaths

UrlTexts ==
    {t \in [scheme : Schemes,
            host : {None} \cup {Some(h) : h \in HostTexts},
            port : {None} \cup {Some(p) : p \in Ports},
            path : Paths \cup OpaquePaths,
            query : Queries] : WellFormed(t)}

parse_url(t) ==
    [scheme |-> t.scheme,
     host |-> IF t.host = None THEN None
              ELSE IF is_special(t.scheme)
                   THEN Some(Host_parse(Unwrap(t.host)))
                   ELSE Some(Host_parse_opaque(Unwrap(t.host))),
     port |-> IF t.port = default_port(t.scheme) THEN None ELSE t.port,
     path |-> t.path,
     query |-> t.query,
     cannot_be_a_base |-> t.path \in OpaquePaths]

has_host(u) == u.host # None

(***************************************************************************)
(* url crate setters.  Each returns the updated URL and whether the call   *)
(* returned Ok; on Err the URL is left as it was.                          *)
(***************************************************************************)
\* set_host that reports Ok without storing the new host
set_host_keepsHost(u, text) ==
    IF u.cannot_be_a_base
    THEN [ok |-> FALSE, url |-> u, error |-> "SetHostOnCannotBeABaseUrl"]
    ELSE [ok |-> TRUE, url |-> u, error |-> ""]

\* set_host that rewrites the whole authority and so loses the port
set_host_dropsPort(u, text) ==
    IF u.cannot_be_a_base
    THEN [ok |-> FALSE, url |-> u, error |-> "SetHostOnCannotBeABaseUrl"]
    ELSE [ok |-> TRUE,
          url |-> [u EXCEPT !.host =
                      IF is_special(u.scheme)
                      THEN Some(Host_parse(text))
                      ELSE Some(Host_parse_opaque(text)),
                   !.port = None],
          error |-> ""]

set_host(u, text) ==
    IF u.cannot_be_a_base
    THEN [ok |-> FALSE, url |-> u, error |-> "SetHostOnCannotBeABaseUrl"]
    ELSE [ok |-> TRUE,
          url |-> [u EXCEPT !.host =
                      IF is_special(u.scheme)
                      THEN Some(Host_parse(text))
                      ELSE Some(Host_parse_opaque(text))],
          error |-> ""]

set_scheme(u, scheme) ==
    IF ~has_host(u) /\ is_special(scheme)
    THEN [ok |-> FALSE, url |-> u, error |-> "()"]
    ELSE [ok |-> TRUE, url |-> [u EXCEPT !.scheme = scheme], error |-> ""]

set_port(u, port) ==
    IF ~has_host(u) \/ u.scheme = "file"
    THEN [ok |-> FALSE, url |-> u, error |-> "()"]
    ELSE [ok |-> TRUE,
          url |-> [u EXCEPT !.port =
                      IF port # None /\ port = default_port(u.scheme)
                      THEN None ELSE port],
          error |-> ""]

(***************************************************************************)
(* State.                                                                  *)
(***************************************************************************)
NoUrl ==
    [scheme |-> "", host |-> None, port |-> None, path |-> "",
     query |-> None, cannot_be_a_base |-> FALSE]

NoText == [scheme |-> "", host |-> None, port |-> None, path |-> "",
           query |-> None]

NoRet == [arm |-> "None"]

NoResult == [tag |-> "None"]

\* Result<url::Url, url::ParseError>
ROk(u) == [arm |-> "Ok", value |-> u]

RErr(e) == [arm |-> "Err", value |-> e]

Init ==
    /\ pc = "idle"
    /\ src = NoUrl
    /\ dest = NoUrl
    /\ src0 = NoUrl
    /\ destText = NoText
    /\ ret = NoRet
    /\ opc = "idle"
    /\ sresult = NoResult
    /\ converted = NoRet

(***************************************************************************)
(* replace_host(src, dest).                                                *)
(***************************************************************************)
\* A caller parses two URL texts and calls replace_host; `let mut src = src`.
Call ==
    /\ pc = "idle"
    /\ \E s \in UrlTexts, d \in UrlTexts :
          /\ src' = parse_url(s)
          /\ src0' = parse_url(s)
          /\ dest' = parse_url(d)
          /\ destText' = d
    /\ ret' = NoRet
    /\ pc' = "host"
    /\ UNCHANGED ovars

\* the host step with the `?` dropped: a rejected host is ignored
HostStep_ignoresErr ==
    /\ pc = "host"
    /\ IF dest.host = None
       THEN UNCHANGED src
       ELSE src' = set_host(src, format_host(Unwrap(dest.host))).url
    /\ pc' = "scheme"
    /\ UNCHANGED <<dest, src0, destText, ret>>
    /\ UNCHANGED ovars

\* match dest.host() { None => {}, Some(host) => src.set_host(Some(&host))? }
HostStep ==
    /\ pc = "host"
    /\ IF dest.host = None
       THEN /\ pc' = "scheme"
            /\ UNCHANGED <<src, ret>>
       ELSE LET host == format_host(Unwrap(dest.host))
                r == set_host(src, host)
            IN  IF r.ok
                THEN /\ src' = r.url
                     /\ pc' = "scheme"
                     /\ UNCHANGED ret
                ELSE /\ ret' = RErr(r.error)
                     /\ pc' = "err"
                     /\ UNCHANGED src
    /\ UNCHANGED <<dest, src0, destText>>
    /\ UNCHANGED ovars

\* src.set_scheme(dest.scheme()).unwrap();
SchemeStep ==
    /\ pc = "scheme"
    /\ LET r == set_scheme(src, dest.scheme)
       IN  IF r.ok
           THEN /\ src' = r.url
                /\ pc' = "port"
           ELSE /\ pc' = "panic"
                /\ UNCHANGED src
    /\ UNCHANGED <<dest, src0, destText, ret>>
    /\ UNCHANGED ovars

\* the port step returning the wrong URL: Ok(dest)
PortStep_returnsDest ==
    /\ pc = "port"
    /\ LET after == IF dest.port = None THEN src
                    ELSE set_port(src, dest.port).url
       IN  /\ src' = after
           /\ ret' = ROk(dest)
    /\ pc' = "done"
    /\ UNCHANGED <<dest, src0, destText>>
    /\ UNCHANGED ovars

\* dest.port().map(|port| src.set_port(Some(port))); Ok(src)
PortStep ==
    /\ pc = "port"
    /\ LET after == IF dest.port = None THEN src
                    ELSE set_port(src, dest.port).url
       IN  /\ src' = after
           /\ ret' = ROk(after)
    /\ pc' = "done"
    /\ UNCHANGED <<dest, src0, destText>>
    /\ UNCHANGED ovars

\* The caller takes the returned Result; the frame of replace_host is gone.
Return ==
    /\ pc \in {"done", "err"}
    /\ pc' = "idle"
    /\ src' = NoUrl
    /\ dest' = NoUrl
    /\ src0' = NoUrl
    /\ destText' = NoText
    /\ ret' = NoRet
    /\ UNCHANGED ovars

Next == Call \/ HostStep \/ SchemeStep \/ PortStep \/ Return

Spec == Init /\ [][Next]_vars

(***************************************************************************)
(* ServiceResult and its conversion to the two-armed Result.               *)
(***************************************************************************)
Responses == 1..NumResponses

ServiceErrors == 1..NumServiceErrors

DomainErrors == 1..NumDomainErrors

SerdeErrors == 1..NumSerdeErrors

ServiceResult ==
    {[tag |-> "Ok", response |-> r] : r \in Responses}
    \cup {[tag |-> "Err", svc_err |-> s, err |-> d] :
             s \in ServiceErrors, d \in DomainErrors}
    \cup {[tag |-> "Fail", svc_err |-> s, opt_serde_err |-> o] :
             s \in ServiceErrors,
             o \in {None} \cup {Some(e) : e \in SerdeErrors}}

Ok(x) == [arm |-> "Ok", value |-> x]

Err(x) == [arm |-> "Err", value |-> x]

into_okAsErr(self) ==
    CASE self.tag = "Ok" -> Err(<<self.response, None>>)
      [] self.tag = "Err" -> Err(<<self.svc_err, Some(Ok(self.err))>>)
      [] self.tag = "Fail" ->
            Err(<<self.svc_err, {Err(serde_err) : serde_err \in self.opt_serde_err}>>)

into_errUnparsed(self) ==
    CASE self.tag = "Ok" -> Ok(self.response)
      [] self.tag = "Err" -> Err(<<self.svc_err, None>>)
      [] self.tag = "Fail" ->
            Err(<<self.svc_err, {Err(serde_err) : serde_err \in self.opt_serde_err}>>)

into_failAsParsed(self) ==
    CASE self.tag = "Ok" -> Ok(self.response)
      [] self.tag = "Err" -> Err(<<self.svc_err, Some(Ok(self.err))>>)
      [] self.tag = "Fail" ->
            Err(<<self.svc_err, {Ok(serde_err) : serde_err \in self.opt_serde_err}>>)

into(self) ==
    CASE self.tag = "Ok" -> Ok(self.response)
      [] self.tag = "Err" -> Err(<<self.svc_err, Some(Ok(self.err))>>)
      [] self.tag = "Fail" ->
            Err(<<self.svc_err, {Err(serde_err) : serde_err \in self.opt_serde_err}>>)

\* Service::exec returns any one of the three variants.
Exec ==
    /\ opc = "idle"
    /\ \E r \in ServiceResult : sresult' = r
    /\ opc' = "returned"
    /\ UNCHANGED converted
    /\ UNCHANGED rvars

\* The caller converts the ServiceResult with .into().
IntoStep ==
    /\ opc = "returned"
    /\ converted' = into(sresult)
    /\ opc' = "converted"
    /\ UNCHANGED sresult
    /\ UNCHANGED rvars

\* The converted value is consumed by the caller's match.
Consume ==
    /\ opc = "converted"
    /\ opc' = "idle"
    /\ sresult' = NoResult
    /\ converted' = NoRet
    /\ UNCHANGED rvars

NextOutcome == Exec \/ IntoStep \/ Consume

SpecOutcome == Init /\ [][NextOutcome]_vars

(***************************************************************************)
(* Properties of the conversion (checked under SpecOutcome).               *)
(***************************************************************************)
\* C1: converting ServiceResult::Ok(r) yields the ok arm holding exactly r,
\* never the error arm.
C1_OkRoundTrip ==
    (opc = "converted" /\ sresult.tag = "Ok") =>
        /\ converted = Ok(sresult.response)
        /\ converted.arm # "Err"

C1_Witness ==
    /\ opc = "converted"
    /\ sresult.tag = "Ok"
    /\ converted.arm = "Ok"
    /\ converted.value = NumResponses

\* C2: converting ServiceResult::Err(s, d) yields the error arm
\* (s, Some(Ok(d))): s unchanged, d present and parsed, never None or
\* Some(Err(_)).
C2_ErrConversion ==
    (opc = "converted" /\ sresult.tag = "Err") =>
        /\ converted.arm = "Err"
        /\ converted.value[1] = sresult.svc_err
        /\ converted.value[2] = Some(Ok(sresult.err))
        /\ converted.value[2] # None
        /\ \A x \in converted.value[2] : x.arm # "Err"

C2_Witness ==
    /\ opc = "converted"
    /\ sresult.tag = "Err"
    /\ sresult.svc_err # sresult.err
    /\ converted = Err(<<sresult.svc_err, Some(Ok(sresult.err))>>)

\* C3: converting Fail(s, None) yields the error arm (s, None); converting
\* Fail(s, Some(e)) yields (s, Some(Err(e))); a Fail never yields an error
\* arm whose second component is Some(Ok(_)).
C3_FailConversion ==
    (opc = "converted" /\ sresult.tag = "Fail") =>
        /\ converted.arm = "Err"
        /\ converted.value[1] = sresult.svc_err
        /\ sresult.opt_serde_err = None => converted.value[2] = None
        /\ \A e \in sresult.opt_serde_err :
              converted.value[2] = Some(Err(e))
        /\ \A x \in converted.value[2] : x.arm # "Ok"

C3_Witness ==
    /\ opc = "converted"
    /\ sresult.tag = "Fail"
    /\ sresult.opt_serde_err # None
    /\ converted.arm = "Err"
    /\ \E x \in converted.value[2] : x.arm = "Err"

(***************************************************************************)
(* Properties of replace_host (checked under Spec).                        *)
(***************************************************************************)
\* Url::port_or_known_default
port_or_known_default(u) == IF u.port # None THEN u.port ELSE default_port(u.scheme)

\* Url::host_str
host_str(u) == {h.str : h \in u.host}

Returned == pc = "done" /\ ret.arm = "Ok"

C6_Frame ==
    Returned =>
        /\ ret.value.path = src0.path
        /\ ret.value.query = src0.query
        /\ ret.value = [src0 EXCEPT !.host = ret.value.host,
                                    !.scheme = ret.value.scheme,
                                    !.port = ret.value.port]

C6_Witness ==
    /\ Returned
    /\ src0.query # None
    /\ src0.path # dest.path
    /\ src0.query # dest.query
    /\ ret.value.host # src0.host
    /\ ret.value.scheme # src0.scheme
    /\ ret.value.port # src0.port
    /\ ret.value.path = src0.path

\* C7: when dest has no explicit port and replace_host returns Ok(u), the
\* port of u is the original port of src (absent stays absent), also when
\* the schemes of src and dest differ.
C7_PortKept ==
    (Returned /\ destText.port = None) => ret.value.port = src0.port

C7_Witness ==
    /\ Returned
    /\ destText.port = None
    /\ src0.port # None
    /\ src0.scheme # dest.scheme
    /\ src0.host # dest.host
    /\ ret.value.port = src0.port

\* C8: when dest specifies an explicit port p, also one equal to the default
\* port of dest's scheme, and replace_host returns Ok(u), the port of u is p.
C8_ExplicitPort ==
    (Returned /\ destText.port # None) =>
        port_or_known_default(ret.value) = destText.port

\* C9: replace_host fails only when setting dest's host on src is rejected,
\* returning that parse error as a value; for every other pair of URLs it
\* returns Ok and never panics.
C9_ErrorsAreValues ==
    /\ pc # "panic"
    /\ pc = "err" =>
          /\ dest.host # None
          /\ ~set_host(src0, format_host(Unwrap(dest.host))).ok
          /\ ret = RErr(set_host(src0, format_host(Unwrap(dest.host))).error)
    /\ pc = "done" => ret.arm = "Ok"

\* C10: replace_host applies its updates in a fixed order: the host first,
\* while src still has its original scheme and only if dest has a host; then
\* the scheme, set to dest's scheme unconditionally; then the port, only if
\* dest has a port.  If the host step fails, neither the scheme step nor the
\* port step is performed.
C10_Step ==
    /\ (pc = "idle" /\ pc' # "idle") => pc' = "host"
    /\ pc = "host" =>
          /\ src = src0
          /\ pc' \in {"scheme", "err"}
          /\ dest.host = None => (src' = src /\ pc' = "scheme")
          /\ dest.host # None =>
                LET r == set_host(src, format_host(Unwrap(dest.host)))
                IN  IF r.ok
                    THEN src' = r.url /\ pc' = "scheme"
                    ELSE src' = src /\ pc' = "err"
    /\ pc = "scheme" =>
          /\ src.scheme = src0.scheme
          /\ src.port = src0.port
          /\ pc' \in {"port", "panic"}
          /\ pc' = "port" => src' = [src EXCEPT !.scheme = dest.scheme]
    /\ pc = "port" =>
          /\ src.scheme = dest.scheme
          /\ src.port = src0.port
          /\ pc' = "done"
          /\ dest.port = None => src' = src
          /\ dest.port # None => src' = set_port(src, dest.port).url
    /\ pc = "err" => (src = src0 /\ pc' = "idle")
    /\ pc = "done" => pc' = "idle"

C10_Order == [][C10_Step]_vars

C10_Witness ==
    /\ Returned
    /\ dest.host # None
    /\ dest.port # None
    /\ src0.scheme # dest.scheme
    /\ ret.value.host = dest.host
    /\ ret.value.scheme = dest.scheme
    /\ ret.value.port = dest.port
    /\ src0.port # dest.port

====
